---------------------------- MODULE Spec2Model ----------------------------
(***************************************************************************)
(* Order storefront + Telegram bot (bot_main.py) and the JSON fallback API *)
(* (web_server.py).  Both programs keep the orders in the flat file        *)
(* orders.json, which each request handler reads, extends in memory and    *)
(* rewrites.  The model has one step per file operation of a handler, the  *)
(* main thread's life cycle around the aiogram event loop, and the event   *)
(* loop's own work (order notifications, the /report command).             *)
(*                                                                         *)
(* Python values are tagged records: Str(s), Num(n), None.  Numbers that   *)
(* Python holds as floats are kept in tenths (fixed point), so "0.5" is 5  *)
(* and 2 is 20.  Free-text order fields that no handler branches on        *)
(* (product_name, name, phone, note, address, lang) are left out of the    *)
(* order records.                                                          *)
(***************************************************************************)
EXTENDS Integers, Sequences, FiniteSets, TLC

\* ------------------------------------------------------------------ bounds
NumThreads  == 2   \* request threads of the (threaded) Flask servers
MaxRequests == 2   \* HTTP requests served in one behaviour
MaxFaults   == 1   \* I/O operations the environment makes fail
MaxReports  == 1   \* /report commands received in one behaviour
MaxStored   == 3   \* length of the stored collections SpecReport starts from

Threads == 1..NumThreads

\* ------------------------------------------------------------ Python values
Str(s) == [t |-> "str", v |-> s]
Num(n) == [t |-> "int", v |-> n]
None   == [t |-> "none", v |-> "None"]

\* ------------------------------------------------------------ configuration
ORDER_GROUP_ID == "group"
OtherChat      == "private"
Chats          == {ORDER_GROUP_ID, OtherChat}

\* products.json as written by the program when the file is missing
\* (id and price; the names and image are display text)
Catalog == << [id |-> "p1", price |-> Num(33000)],
              [id |-> "p2", price |-> Num(18000)] >>

ProductIds == {"p2", "zz"}              \* "zz" is in no catalog entry
Methods    == {"GET", "POST"}
NoField    == [t |-> "absent", v |-> "absent"]   \* form field not submitted
QtyFields  == {Str("-5"), Str("nan"), NoField}

\* ------------------------------------------------------------------- state
VARIABLES
  botConfigured,  \* bool(TOKEN): bot = Bot(token=TOKEN) if TOKEN else None
  mainPc,         \* position of the main thread of bot_main.py
  aiogram_loop,   \* globals()['aiogram_loop']: "unset", "open" or "closed"
  file,           \* orders.json: [st: "missing" | "ok" | "corrupt", data]
  pc,             \* per request thread: position in its handler
  cur,            \* per request thread: the request being served
  local,          \* per request thread: the handler's local list (data / arr)
  nreq,           \* requests received so far; a request's serial is its time
  faults,         \* I/O failures injected so far
  resps,          \* history: serial -> response sent
  accepted,       \* history: serials answered with success, in order
  written,        \* history: serials whose json.dump completed
  writeFailed,    \* history: serials whose write in order() raised
  handed,         \* history: serials handed to run_coroutine_threadsafe
  loopQueue,      \* coroutines scheduled on the aiogram loop, not yet run
  notifyLog,      \* history: <<serial, outcome>> of send attempts and failed hand-overs
  reply,          \* the bot's answer to the last /report
  nreports,       \* /report commands handled
  fileReads       \* times cmd_report opened orders.json

vars == << botConfigured, mainPc, aiogram_loop, file, pc, cur, local, nreq,
           faults, resps, accepted, written, writeFailed, handed, loopQueue,
           notifyLog, reply, nreports, fileReads >>

histVars == << resps, accepted, written, writeFailed, handed >>
botVars  == << loopQueue, notifyLog, reply, nreports, fileReads >>
mainVars == << botConfigured, mainPc, aiogram_loop >>

\* --------------------------------------------------------------- orders.json
MissingFile   == [st |-> "missing", data |-> << >>]
CorruptFile   == [st |-> "corrupt", data |-> << >>]   \* empty or cut-off text
JsonFile(seq) == [st |-> "ok", data |-> seq]

NoRequest == [serial |-> 0, route |-> "none", pid |-> "", method |-> "",
              order |-> << >>]

\* Python floats: a number in fixed point, or nan
Fl(x) == [nan |-> FALSE, x |-> x]
NaN   == [nan |-> TRUE, x |-> 0]

NoReply   == [chat |-> "", kind |-> "none", count |-> 0, kg |-> Fl(0), sum |-> 0]

\* the lookup of line 156: next((x for x in products if x.get("id")==pid), None)
FindProductAny(pid) == Catalog[1]
FindProduct(pid) ==
  IF \E i \in 1..Len(Catalog) : Catalog[i].id = pid
  THEN Catalog[CHOOSE i \in 1..Len(Catalog) :
                 /\ Catalog[i].id = pid
                 /\ \A j \in 1..(i-1) : Catalog[j].id # pid]
  ELSE None

\* request.form.get("qty", "1")
FormGet(field, default) == IF field = NoField THEN default ELSE field

\* the dict built at lines 165-167 (time: the request's serial)
BuildOrder(pid, product, qtyField, serial) ==
  [product_id |-> pid, price |-> product.price,
   qty |-> FormGet(qtyField, Str("1")), time |-> serial]

\* the dict built at web_server.py lines 21-29 (uuid4: a fresh value)
BuildApiOrder(qty, serial) ==
  [id |-> Str(<<"uuid", serial>>), product |-> Str("p1"), qty |-> qty,
   timestamp |-> serial]

Serial(o) == IF "time" \in DOMAIN o THEN o.time ELSE o.timestamp

\* text written at offset 0 by a handle over what the file holds by then:
\* over an empty (just truncated) file it is the file; over another writer's
\* text a longer one replaces it and a shorter one leaves the other's tail
OverlayResults(mine, f) ==
  IF f.st # "ok" THEN {JsonFile(mine)}
  ELSE IF Len(mine) > Len(f.data) THEN {JsonFile(mine)}
  ELSE IF Len(mine) < Len(f.data) THEN {CorruptFile}
  ELSE {JsonFile(mine), CorruptFile}

FlaskServing == mainPc \in {"flask_up", "sleeping", "polling", "stopped", "closed"}
CanFail      == faults < MaxFaults

Init ==
  /\ botConfigured \in BOOLEAN
  /\ mainPc = "boot"
  /\ aiogram_loop = "unset"
  /\ file = MissingFile
  /\ pc = [t \in Threads |-> "idle"]
  /\ cur = [t \in Threads |-> NoRequest]
  /\ local = [t \in Threads |-> << >>]
  /\ nreq = 0
  /\ faults = 0
  /\ resps = [s \in 1..MaxRequests |-> "none"]
  /\ accepted = << >>
  /\ written = {}
  /\ writeFailed = {}
  /\ handed = {}
  /\ loopQueue = << >>
  /\ notifyLog = << >>
  /\ reply = NoReply
  /\ nreports = 0
  /\ fileReads = 0

\* ------------------------------------------------- bot_main.py: /order/<id>
\* lines 154-167 and 186: resolve the product, answer 404 or the form, or
\* build the order of a POST
OrderStart(t, pid, method, qtyField) ==
  /\ FlaskServing
  /\ pc[t] = "idle"
  /\ nreq < MaxRequests
  /\ nreq' = nreq + 1
  /\ LET serial  == nreq + 1
         product == FindProduct(pid)
         req     == [serial |-> serial, route |-> "order", pid |-> pid,
                     method |-> method, order |-> << >>]
     IN IF product = None
        THEN /\ cur' = [cur EXCEPT ![t] = req]
             /\ resps' = [resps EXCEPT ![serial] = "404"]
             /\ pc' = pc
        ELSE IF method = "POST"
        THEN /\ cur' = [cur EXCEPT ![t] =
                  [req EXCEPT !.order = BuildOrder(pid, product, qtyField, serial)]]
             /\ resps' = resps
             /\ pc' = [pc EXCEPT ![t] = "o_exists"]
        ELSE /\ cur' = [cur EXCEPT ![t] = req]
             /\ resps' = [resps EXCEPT ![serial] = "form"]
             /\ pc' = pc
  /\ UNCHANGED << mainVars, file, local, faults, accepted, written,
                  writeFailed, handed, botVars >>

\* line 170: Path(DATA_FILE).exists()
OrderExists(t) ==
  /\ pc[t] = "o_exists"
  /\ pc' = [pc EXCEPT ![t] = IF file.st = "missing" THEN "o_create" ELSE "o_read"]
  /\ UNCHANGED << mainVars, file, cur, local, nreq, faults, histVars, botVars >>

\* line 171: write_text("[]"); an error lands in the except of line 174
OrderCreate(t) ==
  /\ pc[t] = "o_create"
  /\ \/ /\ file' = JsonFile(<< >>)
        /\ pc' = [pc EXCEPT ![t] = "o_read"]
        /\ UNCHANGED << local, faults >>
     \/ /\ CanFail
        /\ faults' = faults + 1
        /\ local' = [local EXCEPT ![t] = << cur[t].order >>]
        /\ pc' = [pc EXCEPT ![t] = "o_open"]
        /\ UNCHANGED file
  /\ UNCHANGED << mainVars, cur, nreq, histVars, botVars >>

\* what lines 172-175 leave in data: the parsed list, or [] after any error
LoadedOrEmpty(f, failed) ==
  IF failed \/ f.st # "ok" THEN << >> ELSE f.data

\* lines 172-176: open, json.load, except Exception: data = []; data.append
OrderRead(t) ==
  /\ pc[t] = "o_read"
  /\ \E failed \in BOOLEAN :
       /\ failed => CanFail
       /\ faults' = IF failed THEN faults + 1 ELSE faults
       /\ local' = [local EXCEPT ![t] =
                      Append(LoadedOrEmpty(file, failed), cur[t].order)]
  /\ pc' = [pc EXCEPT ![t] = "o_open"]
  /\ UNCHANGED << mainVars, file, cur, nreq, histVars, botVars >>

\* lines 177-178 stand outside every try: an error there leaves the handler
AfterWriteErrorSwallowed == "continue"
AfterWriteError == "raise"

OrderWriteError(t) ==
  /\ CanFail
  /\ faults' = faults + 1
  /\ writeFailed' = writeFailed \cup {cur[t].serial}
  /\ IF AfterWriteError = "raise"
     THEN /\ resps' = [resps EXCEPT ![cur[t].serial] = "500"]
          /\ pc' = [pc EXCEPT ![t] = "idle"]
          /\ local' = [local EXCEPT ![t] = << >>]
     ELSE /\ pc' = [pc EXCEPT ![t] = "o_notify"]
          /\ UNCHANGED << resps, local >>

\* line 177: open(DATA_FILE, "w") truncates the file
OrderOpen(t) ==
  /\ pc[t] = "o_open"
  /\ \/ /\ file' = CorruptFile
        /\ pc' = [pc EXCEPT ![t] = "o_dump"]
        /\ UNCHANGED << local, faults, resps, writeFailed >>
     \/ /\ OrderWriteError(t)
        /\ UNCHANGED file
  /\ UNCHANGED << mainVars, cur, nreq, accepted, written, handed, botVars >>

\* line 178: json.dump and the close that flushes it
OrderDump(t) ==
  /\ pc[t] = "o_dump"
  /\ \/ /\ file' \in OverlayResults(local[t], file)
        /\ written' = written \cup {cur[t].serial}
        /\ pc' = [pc EXCEPT ![t] = "o_notify"]
        /\ UNCHANGED << local, faults, resps, writeFailed >>
     \/ /\ OrderWriteError(t)
        /\ UNCHANGED << file, written >>
  /\ UNCHANGED << mainVars, cur, nreq, accepted, handed, botVars >>

\* lines 180-182: what the hand-over does for each state of the global slot;
\* run_coroutine_threadsafe raises RuntimeError on a closed loop
HandoffOutcome(loop) ==
  CASE loop = "unset"  -> "skipped"
    [] loop = "open"   -> "scheduled"
    [] loop = "closed" -> "raised"

\* lines 183-185: the except prints, and the confirmation is rendered
HandoffResponseUncaught(outcome) == IF outcome = "raised" THEN "500" ELSE "ordered"
HandoffResponse(outcome) == "ordered"

OrderNotify(t) ==
  /\ pc[t] = "o_notify"
  /\ LET outcome == HandoffOutcome(aiogram_loop)
         r       == HandoffResponse(outcome)
         serial  == cur[t].serial
     IN /\ IF outcome = "scheduled"
           THEN /\ loopQueue' = Append(loopQueue, cur[t].order)
                /\ handed' = handed \cup {serial}
           ELSE UNCHANGED << loopQueue, handed >>
        /\ notifyLog' = IF outcome = "raised"
                        THEN Append(notifyLog, << serial, "handoff_error" >>)
                        ELSE notifyLog
        /\ resps' = [resps EXCEPT ![serial] = r]
        /\ accepted' = IF r = "ordered" THEN Append(accepted, serial) ELSE accepted
  /\ pc' = [pc EXCEPT ![t] = "idle"]
  /\ local' = [local EXCEPT ![t] = << >>]
  /\ UNCHANGED << mainVars, file, cur, nreq, faults, written, writeFailed,
                  reply, nreports, fileReads >>

\* ------------------------------------------------ web_server.py: /api/order
ApiQtys == {Num(2)}

\* lines 41-42: every exception of the try block becomes the 500 answer
ApiError(t) ==
  /\ CanFail
  /\ faults' = faults + 1
  /\ resps' = [resps EXCEPT ![cur[t].serial] = "api_error"]
  /\ pc' = [pc EXCEPT ![t] = "idle"]
  /\ local' = [local EXCEPT ![t] = << >>]

\* lines 19-29: request.get_json() and the order dict; data.get on a body
\* that is no JSON object raises inside the try
ApiStart(t, hasBody, qty) ==
  /\ pc[t] = "idle"
  /\ nreq < MaxRequests
  /\ nreq' = nreq + 1
  /\ LET serial == nreq + 1
         req    == [serial |-> serial, route |-> "api", pid |-> "",
                    method |-> "POST", order |-> << >>]
     IN IF hasBody
        THEN /\ cur' = [cur EXCEPT ![t] =
                  [req EXCEPT !.order = BuildApiOrder(qty, serial)]]
             /\ resps' = resps
             /\ pc' = [pc EXCEPT ![t] = "a_exists"]
        ELSE /\ cur' = [cur EXCEPT ![t] = req]
             /\ resps' = [resps EXCEPT ![serial] = "api_error"]
             /\ pc' = pc
  /\ UNCHANGED << mainVars, file, local, faults, accepted, written,
                  writeFailed, handed, botVars >>

\* line 31: os.path.exists(ORDERS_FILE)
ApiExists(t) ==
  /\ pc[t] = "a_exists"
  /\ pc' = [pc EXCEPT ![t] = IF file.st = "missing" THEN "a_create" ELSE "a_read"]
  /\ UNCHANGED << mainVars, file, cur, local, nreq, faults, histVars, botVars >>

\* lines 32-33: write [] into the new file
ApiCreate(t) ==
  /\ pc[t] = "a_create"
  /\ \/ /\ file' = JsonFile(<< >>)
        /\ pc' = [pc EXCEPT ![t] = "a_read"]
        /\ UNCHANGED << local, faults, resps >>
     \/ /\ ApiError(t)
        /\ UNCHANGED file
  /\ UNCHANGED << mainVars, cur, nreq, accepted, written, writeFailed,
                  handed, botVars >>

\* lines 35-37: open "r+", json.load, arr.append; a file that does not parse
\* raises and the request ends in the 500 answer with the file as it was
ApiRead(t) ==
  /\ pc[t] = "a_read"
  /\ \/ /\ file.st = "ok"
        /\ local' = [local EXCEPT ![t] = Append(file.data, cur[t].order)]
        /\ pc' = [pc EXCEPT ![t] = "a_trunc"]
        /\ UNCHANGED << faults, resps >>
     \/ /\ file.st # "ok"
        /\ resps' = [resps EXCEPT ![cur[t].serial] = "api_error"]
        /\ pc' = [pc EXCEPT ![t] = "idle"]
        /\ UNCHANGED << local, faults >>
     \/ ApiError(t)
  /\ UNCHANGED << mainVars, file, cur, nreq, accepted, written, writeFailed,
                  handed, botVars >>

\* line 38: f.seek(0); f.truncate()
ApiTruncate(t) ==
  /\ pc[t] = "a_trunc"
  /\ file' = CorruptFile
  /\ pc' = [pc EXCEPT ![t] = "a_dump"]
  /\ UNCHANGED << mainVars, cur, local, nreq, faults, histVars, botVars >>

\* lines 39-40: json.dump, the close that flushes it, and {"status":"ok"}
ApiDump(t) ==
  /\ pc[t] = "a_dump"
  /\ \/ /\ file' \in OverlayResults(local[t], file)
        /\ written' = written \cup {cur[t].serial}
        /\ resps' = [resps EXCEPT ![cur[t].serial] = "api_ok"]
        /\ accepted' = Append(accepted, cur[t].serial)
        /\ pc' = [pc EXCEPT ![t] = "idle"]
        /\ local' = [local EXCEPT ![t] = << >>]
        /\ UNCHANGED << faults, writeFailed >>
     \/ /\ ApiError(t)
        /\ UNCHANGED << file, written, accepted, writeFailed >>
  /\ UNCHANGED << mainVars, cur, nreq, handed, botVars >>

\* --------------------------------------------- bot_main.py: the main thread
\* lines 252-253: the Flask thread starts serving
MainStartFlask ==
  /\ mainPc = "boot"
  /\ mainPc' = "flask_up"
  /\ UNCHANGED << botConfigured, aiogram_loop, file, pc, cur, local, nreq,
                  faults, histVars, botVars >>

\* lines 257-263: no bot, the main thread only sleeps
MainNoBot ==
  /\ mainPc = "flask_up"
  /\ ~botConfigured
  /\ mainPc' = "sleeping"
  /\ UNCHANGED << botConfigured, aiogram_loop, file, pc, cur, local, nreq,
                  faults, histVars, botVars >>

\* lines 269-275: the loop is created, published and starts polling
MainCreateLoop ==
  /\ mainPc = "flask_up"
  /\ botConfigured
  /\ mainPc' = "polling"
  /\ aiogram_loop' = "open"
  /\ UNCHANGED << botConfigured, file, pc, cur, local, nreq, faults,
                  histVars, botVars >>

\* lines 276-279: run_until_complete returns (CTRL+C or a polling error)
MainPollingEnds ==
  /\ mainPc = "polling"
  /\ mainPc' = "stopped"
  /\ UNCHANGED << botConfigured, aiogram_loop, file, pc, cur, local, nreq,
                  faults, histVars, botVars >>

\* lines 280-283: shutdown_asyncgens, close; what is still scheduled is dropped
MainCloseLoop ==
  /\ mainPc = "stopped"
  /\ mainPc' = "closed"
  /\ aiogram_loop' = "closed"
  /\ loopQueue' = << >>
  /\ UNCHANGED << botConfigured, file, pc, cur, local, nreq, faults,
                  histVars, notifyLog, reply, nreports, fileReads >>

\* the main thread ends (after line 285, or line 266): the process exits and
\* takes its daemon Flask thread along, whatever its requests were doing
MainExit ==
  /\ mainPc \in {"closed", "sleeping"}
  /\ mainPc' = "exited"
  /\ LET dying == {t \in Threads : pc[t] # "idle" /\ cur[t].route = "order"}
     IN /\ pc' = [t \in Threads |-> IF t \in dying THEN "idle" ELSE pc[t]]
        /\ local' = [t \in Threads |-> IF t \in dying THEN << >> ELSE local[t]]
        /\ resps' = [s \in DOMAIN resps |->
                       IF \E t \in dying : cur[t].serial = s
                       THEN "aborted" ELSE resps[s]]
  /\ UNCHANGED << botConfigured, aiogram_loop, file, cur, nreq, faults,
                  accepted, written, writeFailed, handed, botVars >>

\* ------------------------------------------- bot_main.py: the aiogram loop
\* lines 195-203: the coroutine run by the loop; a send error is printed
LoopDeliver ==
  /\ mainPc \in {"polling", "stopped"}
  /\ loopQueue # << >>
  /\ LET serial == Serial(Head(loopQueue))
     IN IF ~botConfigured
        THEN notifyLog' = Append(notifyLog, << serial, "not_configured" >>)
        ELSE \E sent \in BOOLEAN :
               notifyLog' = Append(notifyLog,
                               << serial, IF sent THEN "sent" ELSE "send_error" >>)
  /\ loopQueue' = Tail(loopQueue)
  /\ UNCHANGED << mainVars, file, pc, cur, local, nreq, faults, histVars,
                  reply, nreports, fileReads >>

\* float(): in tenths; [ok |-> FALSE] stands for ValueError / TypeError
DecimalText == [s \in {"2", "1", "0.5", "-5", "0"} |->
                 CASE s = "2" -> 20 [] s = "1" -> 10 [] s = "0.5" -> 5
                   [] s = "-5" -> -50 [] s = "0" -> 0]

PyFloat(v) ==
  CASE v.t = "int" -> [ok |-> TRUE, f |-> Fl(10 * v.v)]
    [] v.t = "str" /\ v.v \in DOMAIN DecimalText
                   -> [ok |-> TRUE, f |-> Fl(DecimalText[v.v])]
    [] v.t = "str" /\ v.v = "nan" -> [ok |-> TRUE, f |-> NaN]
    [] OTHER -> [ok |-> FALSE, f |-> Fl(0)]

FAdd(a, b) == IF a.nan \/ b.nan THEN NaN ELSE Fl(a.x + b.x)
FMul(a, b) == IF a.nan \/ b.nan THEN NaN ELSE Fl(a.x * b.x)

\* d.get(key, default)
DictGet(d, key, default) == IF key \in DOMAIN d THEN d[key] ELSE default

\* lines 228-237: total_kg in tenths, total_sum in hundredths; an entry whose
\* qty or price float() rejects is passed over
RECURSIVE Totals(_)
Totals(data) ==
  IF data = << >> THEN [kg |-> Fl(0), sum |-> Fl(0)]
  ELSE LET acc == Totals(SubSeq(data, 1, Len(data) - 1))
           d   == data[Len(data)]
           q   == PyFloat(DictGet(d, "qty", Num(0)))
           p   == PyFloat(DictGet(d, "price", Num(0)))
       IN IF q.ok /\ p.ok
          THEN [kg |-> FAdd(acc.kg, q.f), sum |-> FAdd(acc.sum, FMul(q.f, p.f))]
          ELSE acc

\* int(total_sum) of line 238: truncation toward zero, ValueError on nan
PyIntRaises(f) == f.nan
PyInt(f) == IF f.x >= 0 THEN f.x \div 100 ELSE -((-f.x) \div 100)

\* line 220: the origin check
ReportAllowedAll(chat) == TRUE
ReportAllowed(chat) == chat = ORDER_GROUP_ID

\* lines 222-226: the parsed list, or [] after any error
ReportLoad(f, failed) == IF failed \/ f.st # "ok" THEN << >> ELSE f.data

\* lines 219-238: /report, run by the loop as one callback (registered only
\* when the bot is configured, line 241)
CmdReport(chat) ==
  /\ botConfigured
  /\ mainPc = "polling"
  /\ nreports < MaxReports
  /\ nreports' = nreports + 1
  /\ IF ~ReportAllowed(chat)
     THEN /\ reply' = [NoReply EXCEPT !.chat = chat, !.kind = "refusal"]
          /\ UNCHANGED << fileReads, faults >>
     ELSE \E failed \in BOOLEAN :
            /\ failed => CanFail
            /\ faults' = IF failed THEN faults + 1 ELSE faults
            /\ fileReads' = fileReads + 1
            /\ LET data == ReportLoad(file, failed)
                   tot  == Totals(data)
               IN reply' =
                    IF PyIntRaises(tot.sum)
                    THEN [NoReply EXCEPT !.chat = chat, !.kind = "error"]
                    ELSE [chat |-> chat, kind |-> "summary", count |-> Len(data),
                          kg |-> tot.kg, sum |-> PyInt(tot.sum)]
  /\ UNCHANGED << mainVars, file, pc, cur, local, nreq, histVars, loopQueue,
                  notifyLog >>

\* ------------------------------------------------------------ specifications
Handler(t) ==
  \/ \E pid \in ProductIds, method \in Methods, qtyField \in QtyFields :
       OrderStart(t, pid, method, qtyField)
  \/ OrderExists(t)
  \/ OrderCreate(t)
  \/ OrderRead(t)
  \/ OrderOpen(t)
  \/ OrderDump(t)
  \/ OrderNotify(t)
  \/ \E hasBody \in BOOLEAN, qty \in ApiQtys : ApiStart(t, hasBody, qty)
  \/ ApiExists(t)
  \/ ApiCreate(t)
  \/ ApiRead(t)
  \/ ApiTruncate(t)
  \/ ApiDump(t)

MainThread ==
  \/ MainStartFlask
  \/ MainNoBot
  \/ MainCreateLoop
  \/ MainPollingEnds
  \/ MainCloseLoop
  \/ MainExit

BotLoop ==
  \/ LoopDeliver
  \/ \E chat \in Chats : CmdReport(chat)

\* the whole system: request threads run concurrently
Next == (\E t \in Threads : Handler(t)) \/ MainThread \/ BotLoop
Spec == Init /\ [][Next]_vars

\* sequential use: one request at a time (a single request thread)
NextSeq == Handler(1) \/ MainThread \/ BotLoop
SpecSeq == Init /\ [][NextSeq]_vars

\* the report over every stored collection: orders as the two handlers write
\* them, with the qty and price values a form, a JSON body or products.json
\* can carry; the bot is polling and the environment injects no I/O failure
StoredQtys   == {Num(2), Num(1), Str("bad"), Str("nan"), Str("0.5")}
StoredPrices == {Num(1000), Num(500), Num(3000), Str("bad")}
StoredOrders ==
  {[product_id |-> "p2", price |-> p, qty |-> q, time |-> 0] :
      p \in StoredPrices, q \in StoredQtys}
  \cup {BuildApiOrder(Num(2), 0)}

RECURSIVE SeqsUpTo(_, _)
SeqsUpTo(S, n) ==
  IF n = 0 THEN {<< >>}
  ELSE LET shorter == SeqsUpTo(S, n - 1)
       IN shorter \cup {Append(q, x) : q \in {r \in shorter : Len(r) = n - 1}, x \in S}

InitReport ==
  /\ botConfigured = TRUE
  /\ mainPc = "polling"
  /\ aiogram_loop = "open"
  /\ file \in {JsonFile(q) : q \in SeqsUpTo(StoredOrders, MaxStored)}
  /\ pc = [t \in Threads |-> "idle"]
  /\ cur = [t \in Threads |-> NoRequest]
  /\ local = [t \in Threads |-> << >>]
  /\ nreq = 0
  /\ faults = MaxFaults
  /\ resps = [s \in 1..MaxRequests |-> "none"]
  /\ accepted = << >>
  /\ written = {}
  /\ writeFailed = {}
  /\ handed = {}
  /\ loopQueue = << >>
  /\ notifyLog = << >>
  /\ reply = NoReply
  /\ nreports = 0
  /\ fileReads = 0

NextReport == \E chat \in Chats : CmdReport(chat)
SpecReport == InitReport /\ [][NextReport]_vars

\* ------------------------------------------------------------------ claims
AllIdle       == \A t \in Threads : pc[t] = "idle"
StoredSerials == {Serial(file.data[i]) : i \in 1..Len(file.data)}
CatalogIds    == {Catalog[i].id : i \in 1..Len(Catalog)}
IsOrderPost(o) == "product_id" \in DOMAIN o

\* C1: once all concurrently handled submissions have returned success, the
\* persisted collection holds every one of them (checked on the runs in which
\* no I/O operation fails, so that only the interleaving is at work).
C1_NoLostWrite ==
  (AllIdle /\ faults = 0) =>
     \A i \in 1..Len(accepted) : accepted[i] \in StoredSerials

\* C2: under sequential use of POST /order/<id>, the persisted collection is
\* exactly the successfully submitted orders, in submission order, whatever
\* state the file was found in (checked between requests, while the process
\* runs, on the runs in which every request so far returned the confirmation).
C2_AppendOnly ==
  ( /\ pc[1] = "idle"
    /\ mainPc # "exited"
    /\ writeFailed = {}
    /\ \A s \in DOMAIN resps : resps[s] \notin {"api_ok", "api_error"} )
  => /\ Len(file.data) = Len(accepted)
     /\ \A i \in 1..Len(accepted) : Serial(file.data[i]) = accepted[i]

\* C3: a GET or POST /order/<id> for an id that is in no catalog entry is
\* answered 404 in the step that receives it, and that step changes neither
\* orders.json nor what is handed to the bot's event loop.
C3_NotFoundNoEffect ==
  [][ \A t \in Threads :
        ( /\ cur'[t] # cur[t]
          /\ cur'[t].route = "order"
          /\ cur'[t].pid \notin CatalogIds )
        => /\ resps'[cur'[t].serial] = "404"
           /\ pc'[t] = "idle"
           /\ file' = file
           /\ loopQueue' = loopQueue
           /\ handed' = handed ]_vars

C3_Witness ==
  \E t \in Threads :
    /\ cur[t].route = "order"
    /\ cur[t].method = "POST"
    /\ cur[t].pid \notin CatalogIds
    /\ resps[cur[t].serial] = "404"
    /\ file.st = "ok"
    /\ Len(file.data) > 0

\* C4: the hand-over of a stored order to the event loop ends in the success
\* confirmation whatever the hand-over does (skipped, scheduled or raising),
\* and neither it nor a delivery attempt, failed or not, touches orders.json
\* or an answer already given.
C4_NotifyIsolated ==
  [][ /\ \A t \in Threads :
           (pc[t] = "o_notify" /\ pc'[t] = "idle" /\ mainPc' = mainPc)
           => /\ resps'[cur[t].serial] = "ordered"
              /\ file' = file
      /\ (notifyLog' # notifyLog /\ loopQueue' # loopQueue)
           => (file' = file /\ resps' = resps) ]_vars

Logged(s, outcome) == \E i \in 1..Len(notifyLog) : notifyLog[i] = << s, outcome >>

C4_Witness ==
  \E s, s2 \in DOMAIN resps :
    /\ resps[s] = "ordered"
    /\ Logged(s, "send_error")
    /\ resps[s2] = "ordered"
    /\ Logged(s2, "handoff_error")
    /\ \E i \in 1..Len(file.data) : Serial(file.data[i]) = s2

\* C5: a request whose write to orders.json raised is answered with the 500
\* error and is never handed to the event loop; every order handed to the
\* loop is one whose json.dump completed.
C5_NoNotifyWithoutWrite ==
  /\ \A s \in writeFailed :
       /\ resps[s] = "500"
       /\ s \notin handed
       /\ \A i \in 1..Len(loopQueue) : Serial(loopQueue[i]) # s
  /\ handed \subseteq written

C5_Witness ==
  \E s \in writeFailed :
    /\ resps[s] = "500"
    /\ botConfigured
    /\ aiogram_loop = "open"

\* C6: with the bot configured and the process running, every submission
\* answered with the confirmation has been handed to the event loop for its
\* one notification attempt.
C6_OneAttemptPerOrder ==
  (botConfigured /\ mainPc # "exited") =>
     \A s \in DOMAIN resps : resps[s] = "ordered" => s \in handed

\* C7: every order of the persisted collection carries an id, and no two
\* orders carry the same id.
C7_UniqueIds ==
  /\ \A i \in 1..Len(file.data) : "id" \in DOMAIN file.data[i]
  /\ \A i, j \in 1..Len(file.data) :
       i # j => file.data[i].id # file.data[j].id

\* C8: the qty stored by POST /order/<id> denotes a positive number.
C8_PositiveQty ==
  \A i \in 1..Len(file.data) :
    IsOrderPost(file.data[i]) =>
      LET q == PyFloat(file.data[i].qty)
      IN q.ok /\ ~q.f.nan /\ q.f.x > 0

\* C9: a /report from a chat other than ORDER_GROUP_ID gets the refusal, with
\* no read of orders.json and no totals; only the group chat gets a summary;
\* orders.json is the same after the command as before.
C9_ReportGated ==
  [][ (nreports' # nreports) =>
        /\ file' = file
        /\ (reply'.chat # ORDER_GROUP_ID) =>
              /\ reply' = [NoReply EXCEPT !.chat = reply'.chat, !.kind = "refusal"]
              /\ fileReads' = fileReads
        /\ (reply'.kind = "summary") =>
              /\ reply'.chat = ORDER_GROUP_ID
              /\ fileReads' = fileReads + 1 ]_vars

C9_Witness ==
  /\ reply.kind = "refusal"
  /\ reply.chat = OtherChat
  /\ fileReads = 0
  /\ file.st = "ok"
  /\ Len(file.data) > 0

\* C10: for every stored collection the report gives the number of orders, the
\* sum of qty and the sum of qty*price over the orders whose qty and price are
\* both numbers; any other order adds nothing and the report is still given.
IsNumber(v) == v.t = "int" \/ (v.t = "str" /\ v.v \in DOMAIN DecimalText)
Tenths(v)   == IF v.t = "int" THEN 10 * v.v ELSE DecimalText[v.v]
Counts(d)   == /\ IsNumber(DictGet(d, "qty", Num(0)))
               /\ IsNumber(DictGet(d, "price", Num(0)))

RECURSIVE SumQty(_)
SumQty(data) ==
  IF data = << >> THEN 0
  ELSE SumQty(Tail(data)) +
       (IF Counts(Head(data)) THEN Tenths(DictGet(Head(data), "qty", Num(0))) ELSE 0)

RECURSIVE SumRevenue(_)
SumRevenue(data) ==
  IF data = << >> THEN 0
  ELSE SumRevenue(Tail(data)) +
       (IF Counts(Head(data))
        THEN Tenths(DictGet(Head(data), "qty", Num(0)))
             * Tenths(DictGet(Head(data), "price", Num(0)))
        ELSE 0)

C10_ReportTotals ==
  (nreports > 0 /\ reply.chat = ORDER_GROUP_ID) =>
     /\ reply.kind = "summary"
     /\ reply.count = Len(file.data)
     /\ reply.kg = Fl(SumQty(file.data))
     /\ 100 * reply.sum = SumRevenue(file.data)
=============================================================================
